---- MODULE Spec2Model ----
(***************************************************************************)
(* A model of the X-O matchmaking and session server (server/server.py).   *)
(*                                                                         *)
(* Text is modelled as a sequence of one-character strings so that the     *)
(* string operations the server applies to a received message (strip,      *)
(* upper, startswith, split, isdigit) are computed, not assumed.           *)
(* A connection is identified by a positive integer, which also stands for *)
(* its remote address (getpeername); address 0 is the sentinel             *)
(* ("unknown", 0).                                                         *)
(***************************************************************************)
EXTENDS Integers, Sequences, FiniteSets, TLC

\* ------------------------------------------------------------------ bounds

\* Connections accepted in the game-focused specification Spec.
NConns == 2
\* Connections accepted in the matchmaking-focused specification SpecMatch.
NConnsMatch == 4
\* Highest cell number a client asks for: in Spec (9 is out of range), in
\* SpecMatch and in SpecEarly.
MaxCell == 9
MaxCellMatch == 0
MaxCellEarly == 2
\* The messages a connection's socket buffers hold while its peer does not
\* read. The buffers are finite; their size in the program is a number of
\* bytes the operating system sets, here a number of messages.
SendBufferCap == 6

\* --------------------------------------------------------- program constants

MOVE_TIMEOUT_SECONDS == 30

\* The sentinel address ("unknown", 0) of safe_send / recv_with_timeout.
UnknownAddr == 0

\* ------------------------------------------------------------------ text

Digits == {"0", "1", "2", "3", "4", "5", "6", "7", "8", "9"}

\* str.isspace for the characters a message of the model can hold.
Whitespace == {" ", "\n", "\t", "\r"}

\* A byte sequence that bytes.decode() rejects holds this pseudo character.
BadByte == "<0xff>"

\* str.upper, character by character (the letters the model's messages use).
UpperChar(ch) ==
    CASE ch = "q" -> "Q" [] ch = "u" -> "U" [] ch = "i" -> "I" [] ch = "t" -> "T"
      [] ch = "m" -> "M" [] ch = "o" -> "O" [] ch = "v" -> "V" [] ch = "e" -> "E"
      [] ch = "h" -> "H" [] ch = "x" -> "X" [] ch = "s" -> "S"
      [] OTHER -> ch

Upper(s) == [i \in 1..Len(s) |-> UpperChar(s[i])]

RECURSIVE LStrip(_)
LStrip(s) == IF s # <<>> /\ Head(s) \in Whitespace THEN LStrip(Tail(s)) ELSE s

RECURSIVE RStrip(_)
RStrip(s) ==
    IF s # <<>> /\ s[Len(s)] \in Whitespace THEN RStrip(SubSeq(s, 1, Len(s) - 1)) ELSE s

\* str.strip(): leading and trailing whitespace removed.
Strip(s) == RStrip(LStrip(s))

\* str.startswith(prefix)
StartsWith(s, prefix) ==
    /\ Len(s) >= Len(prefix)
    /\ SubSeq(s, 1, Len(prefix)) = prefix

\* str.isdigit(): non-empty and every character a digit.
IsDigit(s) == s # <<>> /\ \A i \in 1..Len(s) : s[i] \in Digits

\* str.split() with no argument: the maximal runs of non-whitespace characters.
RECURSIVE SplitFrom(_, _, _)
SplitFrom(s, word, acc) ==
    IF s = <<>>
    THEN IF word = <<>> THEN acc ELSE Append(acc, word)
    ELSE IF Head(s) \in Whitespace
         THEN SplitFrom(Tail(s), <<>>, IF word = <<>> THEN acc ELSE Append(acc, word))
         ELSE SplitFrom(Tail(s), Append(word, Head(s)), acc)

Split(s) == SplitFrom(s, <<>>, <<>>)

\* bytes.decode() succeeds
Decodable(data) == \A i \in 1..Len(data) : data[i] # BadByte

QUIT_TEXT == <<"Q", "U", "I", "T">>
MOVE_PREFIX == <<"M", "O", "V", "E", " ">>

\* ------------------------------------------------------------ Game Engine
\* logic/logic.py (TicTacToe) is not part of the sources at hand; the engine
\* is modelled from its interface contract: a 3x3 board of cells 0..8, the
\* first player of the pair is X and moves first, and make_move either
\* mutates the game or signals one of the engine's errors.

Cells == 0..8
Empty == " "
NoWinner == "None"

WinLines ==
    { {0, 1, 2}, {3, 4, 5}, {6, 7, 8},
      {0, 3, 6}, {1, 4, 7}, {2, 5, 8},
      {0, 4, 8}, {2, 4, 6} }

\* TicTacToe(p1, p2)
NewGame(p1, p2) ==
    [ board  |-> [c \in Cells |-> Empty],
      turn   |-> p1,
      X      |-> p1,
      O      |-> p2,
      winner |-> NoWinner ]

\* game.symbols[player]
SymbolOf(g, player) == IF player = g.X THEN "X" ELSE "O"

\* int(move) of an all-digit text
RECURSIVE ParseInt(_)
ParseInt(s) ==
    IF s = <<>> THEN 0
    ELSE 10 * ParseInt(SubSeq(s, 1, Len(s) - 1))
         + (CHOOSE d \in 0..9 : ToString(d) = s[Len(s)])

HasLine(board, sym) == \E line \in WinLines : \A c \in line : board[c] = sym

BoardFull(board) == \A c \in Cells : board[c] # Empty

\* What make_move(player, move) signals: "ok" or the name of the error.
MoveOutcome(g, player, move) ==
    IF g.winner # NoWinner THEN "GameOverError"
    ELSE IF player \notin {g.X, g.O} THEN "PlayerNotRecognizedError"
    ELSE IF player # g.turn THEN "NotYourTurnError"
    ELSE IF ~IsDigit(move) THEN "InvalidMoveError"
    ELSE IF ParseInt(move) \notin Cells THEN "OutOfRangeError"
    ELSE IF g.board[ParseInt(move)] # Empty THEN "CellOccupiedError"
    ELSE "ok"

IllegalMoveErrors ==
    {"InvalidMoveError", "OutOfRangeError", "CellOccupiedError", "NotYourTurnError"}

\* The game after make_move(player, move): unchanged unless the move is legal.
ApplyMove(g, player, move) ==
    IF MoveOutcome(g, player, move) # "ok" THEN g
    ELSE LET sym == SymbolOf(g, player)
             b   == [g.board EXCEPT ![ParseInt(move)] = sym]
             w   == IF HasLine(b, sym) THEN sym
                    ELSE IF BoardFull(b) THEN "Draw" ELSE NoWinner
         IN [g EXCEPT !.board = b,
                      !.winner = w,
                      !.turn = IF w = NoWinner
                               THEN (IF player = g.X THEN g.O ELSE g.X)
                               ELSE g.turn]

\* ------------------------------------------------------------------ state

VARIABLES
    cpc,              \* position of each connection's client_thread worker
    lock,             \* holder of the matchmaking lock, 0 when free
    clients_waiting,  \* the matchmaking queue (a sequence of connections)
    sessions,         \* the handle_game workers, in the order they were started
    appended,         \* history: the connections in the order they were appended
    net,              \* each connection's transport: "up", "down" or "gone"
    closed,           \* close() has been called on the connection
    inbox,            \* data the peer has sent that the server has not read
    tracing,          \* whether the sessions record their trace (fixed by Init)
    deadline,         \* each connection's read deadline in seconds, 0 for None
    peer              \* each connection's far end: whether it reads what it is
                      \* sent, and the messages sent to it since it stopped

vars == <<cpc, lock, clients_waiting, sessions, appended, net, closed, inbox, tracing,
          deadline, peer>>

Conns == DOMAIN cpc

\* sock.getpeername() of a connection whose address resolves
Addr(c) == c

\* ------------------------------------------------------- client messages

RECURSIVE DigitsOf(_)
\* The decimal text of a natural number.
DigitsOf(n) ==
    IF n < 10 THEN <<ToString(n)>> ELSE Append(DigitsOf(n \div 10), ToString(n % 10))

\* The end of stream: recv returns no bytes.
EOF == <<>>

\* What a client may send in one message when it asks for cells up to
\* maxCell: a bare cell number, the MOVE form, QUIT, a malformed MOVE, free
\* text, or the end of the stream.
CoreInputs(maxCell) ==
    {DigitsOf(n) : n \in 0..maxCell}
      \cup { MOVE_PREFIX \o DigitsOf(maxCell),
             <<"Q", "U", "I", "T">>,
             <<"M", "O", "V", "E", " ", "x">>,
             <<"h", "i">>,
             EOF }

QuitInputs ==
    { <<" ", "q", "u", "i", "t", "\n">>,
      <<"Q", "u", "i", "t", "\n">> }

MalformedMoveInputs ==
    { <<"m", "o", "v", "e", " ", "1", " ", "2", "\n">>,
      <<"M", "o", "v", "e", " ", "\n", "0", "x">> }

FreeTextInputs ==
    { <<"M", "O", "V", "E">>,
      <<"M", "O", "V", "E", " ", "\n">>,
      <<"\n">>,
      <<"Q", "U", "I", "T", "S">>,
      <<"0", " ", "1">> }

\* The same with more spellings of each kind of message, and bytes that do
\* not decode.
VariedInputs(maxCell) ==
    CoreInputs(maxCell)
      \cup {<<"m", "o", "v", "e", " ", " ">> \o DigitsOf(0) \o <<"\n">>}
      \cup QuitInputs \cup MalformedMoveInputs \cup FreeTextInputs
      \cup {<<BadByte>>}

\* What a client may send before it is asked (SpecEarly).
EarlyInputs == {<<"q", "u", "i", "t", "\n">>, EOF}

\* ------------------------------------------------------ transport primitives
\* A connection's transport only ever degrades: "up" (send and recv work),
\* "down" (send and recv fail, the address still resolves), "gone" (torn
\* down: getpeername fails too). The peer may degrade it at any time; the
\* server sees the change at its next call on the socket.

Degrade(n) ==
    CASE n = "up" -> {"up", "down", "gone"}
      [] n = "down" -> {"down", "gone"}
      [] OTHER -> {"gone"}

\* sock.getpeername() inside try/except: the address, or the sentinel.
GetPeerName(c, n) ==
    { [net |-> n2, ok |-> (n2 # "gone"),
       addr |-> IF n2 # "gone" THEN Addr(c) ELSE UnknownAddr] : n2 \in Degrade(n) }

\* safe_send(sock, text): delivered, or PlayerDisconnectedError(addr).
SafeSend(c, n) ==
    UNION { IF n1 = "up"
            THEN {[net |-> n1, ok |-> TRUE, addr |-> Addr(c)]}
            ELSE {[net |-> g.net, ok |-> FALSE, addr |-> g.addr] : g \in GetPeerName(c, n1)}
          : n1 \in Degrade(n) }

\* sock.sendall on a socket without a timeout returns once the socket's
\* buffer has taken the whole message: while the peer does not read and the
\* buffer is full the call waits, and it ends only by the peer reading or by
\* the transport failing.
HasRoom(c) == peer[c].reading \/ peer[c].unread < SendBufferCap

\* The effect on the buffer of a send to c that returned (ok) or raised.
Buffered(c, ok) ==
    /\ ok => HasRoom(c)
    /\ peer' = IF ok /\ ~peer[c].reading
               THEN [peer EXCEPT ![c].unread = @ + 1]
               ELSE peer

\* recv_with_timeout(sock, timeout_seconds), given the data the peer has
\* pending (<<>> pending for none) and what it may send now: the stripped
\* text, TimeoutWaitingPlayerError(addr) or PlayerDisconnectedError(addr).
\* consumed tells whether the pending data was read.
RecvWithTimeout(c, n, pending, inputs, timeout_seconds) ==
    UNION { IF n1 # "up"
            THEN {[net |-> g.net, kind |-> "Disconnected", addr |-> g.addr,
                   text |-> <<>>, consumed |-> FALSE] : g \in GetPeerName(c, n1)}
            ELSE UNION {
                   {[net |-> g.net, kind |-> "Timeout", addr |-> g.addr,
                     text |-> <<>>, consumed |-> FALSE]
                      : g \in IF pending = <<>> /\ timeout_seconds > 0
                               THEN GetPeerName(c, n1) ELSE {}},
                   UNION { IF data = EOF \/ ~Decodable(data)
                           THEN {[net |-> g.net, kind |-> "Disconnected", addr |-> g.addr,
                                  text |-> <<>>, consumed |-> (pending # <<>>)]
                                   : g \in GetPeerName(c, n1)}
                           ELSE {[net |-> n1, kind |-> "Text", addr |-> Addr(c),
                                  text |-> Strip(data), consumed |-> (pending # <<>>)]}
                         : data \in IF pending # <<>> THEN {pending[1]} ELSE inputs } }
          : n1 \in Degrade(n) }

\* ------------------------------------------------------------ wire messages

MsgWelcome == "Welcome! Waiting for opponent..."
MsgGameStart(sym) == IF sym = "X" THEN "Game start! You are X" ELSE "Game start! You are O"
MsgBoard == "<board>"
MsgPrompt == "Your move (0-8) or QUIT:"
MsgWaiting == "Waiting for opponent..."
MsgFormat == "Invalid move format: <text>"
MsgError == "ERROR: <ViolationKind>: <detail>"
MsgNotRecognized == "ERROR: Player not recognized: <detail>"
MsgGameOver == "GAME OVER: <detail>"
MsgDraw == "Game over! It's a draw."
MsgWin == "You win!"
MsgLose == "You lose!"
MsgOpponentTimeout == "OPPONENT_TIMEOUT - you win"
MsgOpponentQuit == "OPPONENT_QUIT - you win"
MsgOpponentDisconnected == "OPPONENT_DISCONNECTED - you win"
MsgInvalidMessage == "INVALID_MESSAGE: <detail>"
MsgServerError == "Server error: <detail>"

\* ------------------------------------------------------------ matchmaking

\* The server as main() starts listening: no connection accepted yet, of the
\* n that will arrive.
InitOf(n, traced) ==
    /\ tracing = traced
    /\ cpc = [c \in 1..n |-> "none"]
    /\ lock = 0
    /\ clients_waiting = <<>>
    /\ sessions = <<>>
    /\ appended = <<>>
    /\ net = [c \in 1..n |-> "up"]
    /\ closed = [c \in 1..n |-> FALSE]
    /\ inbox = [c \in 1..n |-> <<>>]
    /\ deadline = [c \in 1..n |-> 0]
    /\ peer = [c \in 1..n |-> [reading |-> TRUE, unread |-> 0]]

Init == InitOf(NConns, TRUE)

\* main: s.accept() hands the next connection to a new client_thread worker.
Accept(c) ==
    /\ cpc[c] = "none"
    /\ \A d \in Conns : d < c => cpc[d] # "none"
    /\ cpc' = [cpc EXCEPT ![c] = "welcome"]
    /\ UNCHANGED <<tracing, deadline, peer, lock, clients_waiting, sessions, appended, net, closed, inbox>>

\* Welcome with the send moved inside the with block: the worker takes the
\* lock first and sends while holding it.
WelcomeUnderLock(c) ==
    /\ cpc[c] = "welcome"
    /\ lock = 0
    /\ \E r \in SafeSend(c, net[c]) :
         /\ r.ok
         /\ net' = [net EXCEPT ![c] = r.net]
         /\ Buffered(c, r.ok)
    /\ lock' = c
    /\ cpc' = [cpc EXCEPT ![c] = "append"]
    /\ UNCHANGED <<tracing, deadline, clients_waiting, sessions, appended, closed, inbox>>

\* client_thread: conn.send(Welcome) succeeded.
Welcome(c) ==
    /\ cpc[c] = "welcome"
    /\ \E r \in SafeSend(c, net[c]) :
         /\ r.ok
         /\ net' = [net EXCEPT ![c] = r.net]
         /\ Buffered(c, r.ok)
    /\ cpc' = [cpc EXCEPT ![c] = "lock"]
    /\ UNCHANGED <<tracing, deadline, lock, clients_waiting, sessions, appended, closed, inbox>>

\* client_thread: conn.send(Welcome) failed; the connection is closed and the
\* worker returns without touching the queue.
WelcomeFailed(c) ==
    /\ cpc[c] = "welcome"
    /\ \E r \in SafeSend(c, net[c]) : ~r.ok
    /\ net' = [net EXCEPT ![c] = "gone"]
    /\ closed' = [closed EXCEPT ![c] = TRUE]
    /\ cpc' = [cpc EXCEPT ![c] = "returned"]
    /\ UNCHANGED <<tracing, deadline, peer, lock, clients_waiting, sessions, appended, inbox>>

\* client_thread: with lock (acquire)
Acquire(c) ==
    /\ cpc[c] = "lock"
    /\ lock = 0
    /\ lock' = c
    /\ cpc' = [cpc EXCEPT ![c] = "append"]
    /\ UNCHANGED <<tracing, deadline, peer, clients_waiting, sessions, appended, net, closed, inbox>>

\* client_thread: clients_waiting.append(conn)
AppendWaiting(c) ==
    /\ cpc[c] = "append"
    /\ lock = c
    /\ clients_waiting' = Append(clients_waiting, c)
    /\ appended' = Append(appended, c)
    /\ cpc' = [cpc EXCEPT ![c] = "check"]
    /\ UNCHANGED <<tracing, deadline, peer, lock, sessions, net, closed, inbox>>

NoException == [kind |-> "None", addr |-> UnknownAddr]

\* The state of a handle_game(p1, p2) worker as it starts.
NewSession(p1, p2) ==
    [ p1 |-> p1, p2 |-> p2, pc |-> "greet1", game |-> NewGame(p1, p2),
      current |-> 0, move_text |-> <<>>, move_arg |-> <<>>,
      exc |-> NoException, trace |-> <<>> ]

\* PopPair with pop() in place of pop(0): the newest waiting are taken first.
PopPairNewestFirst(q) ==
    [p1 |-> q[Len(q)], p2 |-> q[Len(q) - 1], rest |-> SubSeq(q, 1, Len(q) - 2)]

\* PopPair with the second pop reading the queue without removing from it.
PopPairKeepSecond(q) == [p1 |-> q[1], p2 |-> q[2], rest |-> Tail(q)]

\* p1 = clients_waiting.pop(0); p2 = clients_waiting.pop(0)
PopPair(q) == [p1 |-> q[1], p2 |-> q[2], rest |-> SubSeq(q, 3, Len(q))]

\* PairReady that waits for a third connection before it pairs.
PairReadyAtThree(q) == Len(q) >= 3

\* if len(clients_waiting) >= 2
PairReady(q) == Len(q) >= 2

\* client_thread: two are waiting; pop both and start handle_game on them
\* (lines 247-250). The new thread runs from here on, while this worker is
\* still inside the with block and holds the lock.
Pair(c) ==
    /\ cpc[c] = "check"
    /\ lock = c
    /\ PairReady(clients_waiting)
    /\ LET pp == PopPair(clients_waiting) IN
         /\ clients_waiting' = pp.rest
         /\ sessions' = Append(sessions, NewSession(pp.p1, pp.p2))
    /\ cpc' = [cpc EXCEPT ![c] = "release"]
    /\ UNCHANGED <<tracing, deadline, peer, lock, appended, net, closed, inbox>>

\* client_thread: the worker that started a session leaves the with block,
\* which releases the lock; the worker ends.
Release(c) ==
    /\ cpc[c] = "release"
    /\ lock = c
    /\ lock' = 0
    /\ cpc' = [cpc EXCEPT ![c] = "returned"]
    /\ UNCHANGED <<tracing, deadline, peer, clients_waiting, sessions, appended, net, closed, inbox>>

\* client_thread: fewer than two are waiting; leave the with block, which
\* releases the lock; the worker ends.
NoPair(c) ==
    /\ cpc[c] = "check"
    /\ lock = c
    /\ ~PairReady(clients_waiting)
    /\ lock' = 0
    /\ cpc' = [cpc EXCEPT ![c] = "returned"]
    /\ UNCHANGED <<tracing, deadline, peer, clients_waiting, sessions, appended, net, closed, inbox>>

\* ---------------------------------------------------------------- session

\* One event of a session's trace: a send (of message what, delivered or
\* not), a recv (what is "Text", "Timeout" or "Disconnected", text the
\* stripped text), a make_move (what is the engine's outcome), a close, a
\* getpeername that raised.
Ev(op, c, what, ok) == [op |-> op, c |-> c, what |-> what, ok |-> ok, text |-> <<>>]
RecvEv(c, what, text) == [op |-> "recv", c |-> c, what |-> what, ok |-> (what = "Text"), text |-> text]

\* The trace is history: what a session did since its latest prompt (or since
\* it started), kept for the properties that speak of it.
Log(trace, ev) == IF tracing THEN Append(trace, ev) ELSE trace

\* raise <kind>(addr, ...) inside the loop's try block. Every handler but
\* that of InvalidMessageError leaves the loop without reading the reply or
\* the board again, so both are dead then.
Raise(s, kind, addr) ==
    [s EXCEPT !.pc = "handler",
              !.exc = [kind |-> kind, addr |-> addr],
              !.move_text = IF kind = "Invalid" THEN s.move_text ELSE <<>>,
              !.move_arg = <<>>,
              !.game = IF kind = "Invalid" THEN s.game
                       ELSE [s.game EXCEPT !.board = [c \in Cells |-> Empty]]]

\* other = p2 if current == p1 else p1
OtherOf(s, current) == IF current = s.p1 THEN s.p2 ELSE s.p1

\* remaining = p2 if e.player_addr == p1.getpeername() else p1
Remaining(s, player_addr, p1_addr) == IF player_addr = p1_addr THEN s.p2 ELSE s.p1

\* continue: back to the top of the while loop (the locals of the iteration
\* that ended are dead: each is assigned again before it is read).
Continue(s) ==
    [s EXCEPT !.pc = "board1", !.move_text = <<>>, !.move_arg = <<>>, !.exc = NoException]

\* break: on to the closing of both sockets. Nothing after the loop reads the
\* game or the locals of the loop; what is kept of the game is who was X and
\* O and the winner the engine reported.
Break(s) ==
    [s EXCEPT !.pc = "close1", !.move_text = <<>>, !.move_arg = <<>>,
              !.exc = NoException, !.current = 0,
              !.game = [s.game EXCEPT !.board = [c \in Cells |-> Empty], !.turn = 0]]

Goto(s, pc) ==
    IF pc = "board1" THEN Continue(s)
    ELSE IF pc = "close1" THEN Break(s)
    ELSE [s EXCEPT !.pc = pc]

\* ParseReply with the MOVE form recognised by the word alone, without the
\* blank after it.
ParseReplyNoBlank(move_text) ==
    IF Upper(move_text) = QUIT_TEXT
    THEN [kind |-> "Quit", arg |-> <<>>]
    ELSE IF StartsWith(Upper(move_text), <<"M", "O", "V", "E">>)
    THEN LET parts == Split(move_text) IN
         IF Len(parts) # 2 \/ ~IsDigit(parts[2])
         THEN [kind |-> "Malformed", arg |-> <<>>]
         ELSE [kind |-> "Move", arg |-> parts[2]]
    ELSE IF IsDigit(move_text)
    THEN [kind |-> "Move", arg |-> move_text]
    ELSE [kind |-> "Format", arg |-> <<>>]

\* ParseReply without the isdigit() test on the token after MOVE.
ParseReplyAnyToken(move_text) ==
    IF Upper(move_text) = QUIT_TEXT
    THEN [kind |-> "Quit", arg |-> <<>>]
    ELSE IF StartsWith(Upper(move_text), MOVE_PREFIX)
    THEN LET parts == Split(move_text) IN
         IF Len(parts) # 2
         THEN [kind |-> "Malformed", arg |-> <<>>]
         ELSE [kind |-> "Move", arg |-> parts[2]]
    ELSE IF IsDigit(move_text)
    THEN [kind |-> "Move", arg |-> move_text]
    ELSE [kind |-> "Format", arg |-> <<>>]

\* ParseReply with QUIT compared as typed, without upper().
ParseReplyCaseSensitive(move_text) ==
    IF move_text = QUIT_TEXT
    THEN [kind |-> "Quit", arg |-> <<>>]
    ELSE IF StartsWith(Upper(move_text), MOVE_PREFIX)
    THEN LET parts == Split(move_text) IN
         IF Len(parts) # 2 \/ ~IsDigit(parts[2])
         THEN [kind |-> "Malformed", arg |-> <<>>]
         ELSE [kind |-> "Move", arg |-> parts[2]]
    ELSE IF IsDigit(move_text)
    THEN [kind |-> "Move", arg |-> move_text]
    ELSE [kind |-> "Format", arg |-> <<>>]

\* Lines 121-134 on the stripped text: what the reply is taken for, and the
\* move argument handed to the engine.
ParseReply(move_text) ==
    IF Upper(move_text) = QUIT_TEXT
    THEN [kind |-> "Quit", arg |-> <<>>]
    ELSE IF StartsWith(Upper(move_text), MOVE_PREFIX)
    THEN LET parts == Split(move_text) IN
         IF Len(parts) # 2 \/ ~IsDigit(parts[2])
         THEN [kind |-> "Malformed", arg |-> <<>>]
         ELSE [kind |-> "Move", arg |-> parts[2]]
    ELSE IF IsDigit(move_text)
    THEN [kind |-> "Move", arg |-> move_text]
    ELSE [kind |-> "Format", arg |-> <<>>]

\* A send of the try block: on success go to pc ok_pc, on failure raise
\* PlayerDisconnectedError into the loop's handlers.
SendOrRaise(k, c, msg, ok_pc) ==
    LET s == sessions[k] IN
    \E r \in SafeSend(c, net[c]) :
      /\ net' = [net EXCEPT ![c] = r.net]
      /\ Buffered(c, r.ok)
      /\ LET s1 == [s EXCEPT !.trace = Log(s.trace, Ev("send", c, msg, r.ok))]
         IN sessions' = [sessions EXCEPT ![k] =
                IF r.ok THEN Goto(s1, ok_pc) ELSE Raise(s1, "Disconnected", r.addr)]

\* A send inside try/except-pass: the failure is swallowed.
SendBestEffort(k, c, msg, next_pc) ==
    LET s == sessions[k] IN
    \E r \in SafeSend(c, net[c]) :
      /\ net' = [net EXCEPT ![c] = r.net]
      /\ Buffered(c, r.ok)
      /\ sessions' = [sessions EXCEPT ![k] =
            Goto([s EXCEPT !.trace = Log(s.trace, Ev("send", c, msg, r.ok))], next_pc)]

\* Greet with the failure of a greeting swallowed: the worker goes on to the
\* next greeting and into the loop.
GreetSwallowed(k) ==
    LET s == sessions[k] IN
    /\ s.pc \in {"greet1", "greet2"}
    /\ LET c == IF s.pc = "greet1" THEN s.p1 ELSE s.p2 IN
       \E r \in SafeSend(c, net[c]) :
         /\ net' = [net EXCEPT ![c] = r.net]
         /\ Buffered(c, r.ok)
         /\ sessions' = [sessions EXCEPT ![k] =
               [s EXCEPT !.trace = Log(s.trace,
                                     Ev("send", c, MsgGameStart(SymbolOf(s.game, c)), r.ok)),
                         !.pc = IF s.pc = "greet1" THEN "greet2" ELSE "board1"]]
    /\ UNCHANGED <<tracing, deadline, cpc, lock, clients_waiting, appended, closed, inbox>>

\* handle_game: the greeting to p1, then to p2 (lines 90-92).
Greet(k) ==
    LET s == sessions[k] IN
    /\ s.pc \in {"greet1", "greet2"}
    /\ LET c == IF s.pc = "greet1" THEN s.p1 ELSE s.p2 IN
       \E r \in SafeSend(c, net[c]) :
         /\ net' = [net EXCEPT ![c] = r.net]
         /\ Buffered(c, r.ok)
         /\ sessions' = [sessions EXCEPT ![k] =
               [s EXCEPT !.trace = Log(s.trace,
                                     Ev("send", c, MsgGameStart(SymbolOf(s.game, c)), r.ok)),
                         !.pc = IF ~r.ok THEN "gclose1"
                                ELSE IF s.pc = "greet1" THEN "greet2" ELSE "board1",
                         !.exc = IF r.ok THEN NoException
                                 ELSE [kind |-> "Disconnected", addr |-> r.addr]]]
    /\ UNCHANGED <<tracing, deadline, cpc, lock, clients_waiting, appended, closed, inbox>>

\* AfterClose without the try/except around close(): a close that raises
\* ends the worker there.
AfterCloseUnguarded(raised, next_pc) == IF raised THEN "done" ELSE next_pc

\* Where the worker is after sock.close() returned (raised = FALSE) or raised:
\* the call sits in try/except-pass, so the worker goes on either way.
AfterClose(raised, next_pc) == next_pc

\* sock.close() inside try/except-pass; whether close raises is the socket's
\* choice.
CloseStep(k, c, next_pc) ==
    LET s == sessions[k] IN
    \E raised \in BOOLEAN :
      /\ closed' = [closed EXCEPT ![c] = TRUE]
      /\ net' = [net EXCEPT ![c] = "gone"]
      /\ sessions' = [sessions EXCEPT ![k] =
            [s EXCEPT !.trace = Log(s.trace, Ev("close", c, "close", TRUE)),
                      !.pc = AfterClose(raised, next_pc)]]

\* handle_game: a greeting failed; close p1, close p2, return (lines 93-103).
GreetFailedClose(k) ==
    LET s == sessions[k] IN
    /\ s.pc \in {"gclose1", "gclose2"}
    /\ IF s.pc = "gclose1" THEN CloseStep(k, s.p1, "gclose2")
                            ELSE CloseStep(k, s.p2, "done")
    /\ UNCHANGED <<tracing, deadline, peer, cpc, lock, clients_waiting, appended, inbox>>

\* BoardBroadcast with each send in try/except-pass: a board that could not
\* be sent does not stop the iteration.
BoardBroadcastBestEffort(k) ==
    LET s == sessions[k] IN
    /\ s.pc \in {"board1", "board2"}
    /\ IF s.pc = "board1" THEN SendBestEffort(k, s.p1, MsgBoard, "board2")
                           ELSE SendBestEffort(k, s.p2, MsgBoard, "prompt")
    /\ UNCHANGED <<tracing, deadline, cpc, lock, clients_waiting, appended, closed, inbox>>

\* handle_game: the board to p1, then to p2, at the top of the loop
\* (lines 108-110).
BoardBroadcast(k) ==
    LET s == sessions[k] IN
    /\ s.pc \in {"board1", "board2"}
    /\ IF s.pc = "board1" THEN SendOrRaise(k, s.p1, MsgBoard, "board2")
                           ELSE SendOrRaise(k, s.p2, MsgBoard, "prompt")
    /\ UNCHANGED <<tracing, deadline, cpc, lock, clients_waiting, appended, closed, inbox>>

\* handle_game: current = game.turn; the prompt to current (lines 112-115).
\* The trace starts afresh with the prompt.
Prompt(k) ==
    LET s == sessions[k] IN
    /\ s.pc = "prompt"
    /\ LET current == s.game.turn IN
       \E r \in SafeSend(current, net[current]) :
         /\ net' = [net EXCEPT ![current] = r.net]
         /\ Buffered(current, r.ok)
         /\ LET s1 == [s EXCEPT !.current = current,
                                 !.trace = Log(<<>>, Ev("send", current, MsgPrompt, r.ok))]
            IN sessions' = [sessions EXCEPT ![k] =
                 IF r.ok THEN [s1 EXCEPT !.pc = "waiting"]
                 ELSE Raise(s1, "Disconnected", r.addr)]
    /\ UNCHANGED <<tracing, deadline, cpc, lock, clients_waiting, appended, closed, inbox>>

\* handle_game: the waiting notice to the other player (line 116).
Waiting(k) ==
    LET s == sessions[k] IN
    /\ s.pc = "waiting"
    /\ SendOrRaise(k, OtherOf(s, s.current), MsgWaiting, "recv")
    /\ UNCHANGED <<tracing, deadline, cpc, lock, clients_waiting, appended, closed, inbox>>

\* The exception a reply raises at lines 122 and 127, where the offender's
\* address is read with a bare current.getpeername(): if that call itself
\* raises, the OSError reaches the catch-all handler.
RaiseWithPeerName(s, kind, g) ==
    IF g.ok THEN Raise(s, kind, g.addr) ELSE Raise(s, "Other", UnknownAddr)

\* ReadFrom with the reply awaited from the player that was told to wait.
ReadFromOther(s) == OtherOf(s, s.current)

\* The socket line 118 hands to recv_with_timeout: current.
ReadFrom(s) == s.current

\* recv_with_timeout: sock.settimeout(timeout_seconds) (line 54); the worker
\* then waits in sock.recv.
RecvBegin(k) ==
    LET s == sessions[k] IN
    /\ s.pc = "recv"
    /\ deadline' = [deadline EXCEPT ![ReadFrom(s)] = MOVE_TIMEOUT_SECONDS]
    /\ sessions' = [sessions EXCEPT ![k] = [s EXCEPT !.pc = "recving"]]
    /\ UNCHANGED <<tracing, peer, cpc, lock, clients_waiting, appended, net, closed, inbox>>

\* DeadlineAfter with the deadline cleared on the success path only.
DeadlineAfterSuccessOnly(kind, timeout_seconds) ==
    IF kind = "Text" THEN 0 ELSE timeout_seconds

\* recv_with_timeout: the read deadline the call leaves behind, whichever way
\* it ends (kind): the finally clause runs sock.settimeout(None)
\* (lines 77-82).
DeadlineAfter(kind, timeout_seconds) == 0

\* handle_game: recv_with_timeout on current returns or raises, then the
\* reply is parsed (lines 118-134). Once the move argument is taken from it,
\* the text is not read again.
ReceiveReply(k, inputs) ==
    LET s == sessions[k]
        c == ReadFrom(s)
    IN
    /\ s.pc = "recving"
    /\ \E r \in RecvWithTimeout(c, net[c], inbox[c], inputs, MOVE_TIMEOUT_SECONDS) :
         LET s1 == [s EXCEPT !.trace = Log(s.trace, RecvEv(c, r.kind, r.text)),
                             !.move_text = r.text]
             parsed == ParseReply(r.text)
         IN
         /\ inbox' = IF r.consumed THEN [inbox EXCEPT ![c] = <<>>] ELSE inbox
         /\ deadline' = [deadline EXCEPT ![c] = DeadlineAfter(r.kind, MOVE_TIMEOUT_SECONDS)]
         /\ IF r.kind # "Text"
            THEN /\ net' = [net EXCEPT ![c] = r.net]
                 /\ sessions' = [sessions EXCEPT ![k] = Raise(s1, r.kind, r.addr)]
            ELSE IF parsed.kind \in {"Quit", "Malformed"}
            THEN \E g \in GetPeerName(c, r.net) :
                   /\ net' = [net EXCEPT ![c] = g.net]
                   /\ sessions' = [sessions EXCEPT ![k] =
                         RaiseWithPeerName(s1, IF parsed.kind = "Quit" THEN "Quit" ELSE "Invalid", g)]
            ELSE /\ net' = [net EXCEPT ![c] = r.net]
                 /\ sessions' = [sessions EXCEPT ![k] =
                       IF parsed.kind = "Move"
                       THEN [s1 EXCEPT !.pc = "move", !.move_arg = parsed.arg,
                                       !.move_text = <<>>]
                       ELSE [s1 EXCEPT !.pc = "format"]]
    /\ UNCHANGED <<tracing, peer, cpc, lock, clients_waiting, appended, closed>>

\* AfterOutcome taking a rejected move for an accepted one: on to the
\* broadcast of the board.
AfterOutcomeBroadcast(outcome) ==
    IF outcome = "ok" \/ outcome \in IllegalMoveErrors THEN "after1"
    ELSE IF outcome = "PlayerNotRecognizedError" THEN "pnrnotice"
    ELSE "over1b"

\* Where the loop goes after game.make_move signalled outcome (lines 137-154).
AfterOutcome(outcome) ==
    IF outcome = "ok" THEN "after1"
    ELSE IF outcome \in IllegalMoveErrors THEN "errnotice"
    ELSE IF outcome = "PlayerNotRecognizedError" THEN "pnrnotice"
    ELSE "over1b"

\* handle_game: game.make_move(current, move_arg) (line 138)
MakeMove(k) ==
    LET s == sessions[k]
        outcome == MoveOutcome(s.game, s.current, s.move_arg)
    IN
    /\ s.pc = "move"
    /\ sessions' = [sessions EXCEPT ![k] =
          [s EXCEPT !.game = ApplyMove(s.game, s.current, s.move_arg),
                    !.move_arg = <<>>,
                    !.trace = Log(s.trace, Ev("move", s.current, outcome, outcome = "ok")),
                    !.pc = AfterOutcome(outcome)]]
    /\ UNCHANGED <<tracing, deadline, peer, cpc, lock, clients_waiting, appended, net, closed, inbox>>

\* handle_game: what follows a reply that is no move (line 133) or a move
\* the engine rejected (lines 139-154): the inline notice to current, then
\* continue; for an unrecognised player the notice, then break; for a move
\* after the end the final board and GAME OVER to each player, inside
\* try/except-pass, then break.
RejectionNotice(k) ==
    LET s == sessions[k] IN
    /\ s.pc \in {"format", "errnotice", "pnrnotice", "over1b", "over1n", "over2b", "over2n"}
    /\ CASE s.pc = "format" -> SendOrRaise(k, s.current, MsgFormat, "board1")
         [] s.pc = "errnotice" -> SendOrRaise(k, s.current, MsgError, "board1")
         [] s.pc = "pnrnotice" -> SendOrRaise(k, s.current, MsgNotRecognized, "close1")
         [] s.pc = "over1n" -> SendBestEffort(k, s.p1, MsgGameOver, "over2b")
         [] s.pc = "over2n" -> SendBestEffort(k, s.p2, MsgGameOver, "close1")
         [] OTHER ->
            LET c == IF s.pc = "over1b" THEN s.p1 ELSE s.p2 IN
            \E r \in SafeSend(c, net[c]) :
              /\ net' = [net EXCEPT ![c] = r.net]
              /\ Buffered(c, r.ok)
              /\ sessions' = [sessions EXCEPT ![k] =
                    Goto([s EXCEPT !.trace = Log(s.trace, Ev("send", c, MsgBoard, r.ok))],
                         IF s.pc = "over1b"
                         THEN (IF r.ok THEN "over1n" ELSE "over2b")
                         ELSE (IF r.ok THEN "over2n" ELSE "close1"))]
    /\ UNCHANGED <<tracing, deadline, cpc, lock, clients_waiting, appended, closed, inbox>>

\* AfterBroadcast without the test of game.winner: the loop goes on.
AfterBroadcastNeverEnds(winner) == "board1"

\* Where the loop goes once the board of a legal move has gone to both
\* players (lines 162-177): on to the notices if the engine has a winner.
AfterBroadcast(winner) ==
    IF winner = NoWinner THEN "board1"
    ELSE IF winner = "Draw" THEN "draw1" ELSE "result1"

\* ResultFor with the two notices exchanged.
ResultForSwapped(s, c) == IF SymbolOf(s.game, c) = s.game.winner THEN MsgLose ELSE MsgWin

\* "You win!" to the player whose symbol is the winner, "You lose!" to the other
ResultFor(s, c) == IF SymbolOf(s.game, c) = s.game.winner THEN MsgWin ELSE MsgLose

\* handle_game: after a legal move (lines 157-177): the board to p1 then p2;
\* if the engine has a winner, the draw notice to p1 then p2, or the result
\* to p1 then p2 inside try/except-pass, then break.
AfterMove(k) ==
    LET s == sessions[k] IN
    /\ s.pc \in {"after1", "after2", "draw1", "draw2", "result1", "result2"}
    /\ CASE s.pc = "after1" -> SendOrRaise(k, s.p1, MsgBoard, "after2")
         [] s.pc = "after2" -> SendOrRaise(k, s.p2, MsgBoard, AfterBroadcast(s.game.winner))
         [] s.pc = "draw1" -> SendOrRaise(k, s.p1, MsgDraw, "draw2")
         [] s.pc = "draw2" -> SendOrRaise(k, s.p2, MsgDraw, "close1")
         [] s.pc = "result1" -> SendBestEffort(k, s.p1, ResultFor(s, s.p1), "result2")
         [] OTHER -> SendBestEffort(k, s.p2, ResultFor(s, s.p2), "close1")
    /\ UNCHANGED <<tracing, deadline, cpc, lock, clients_waiting, appended, closed, inbox>>

\* WinNoticeFor with one notice for every handler.
WinNoticeForAny(kind) == MsgOpponentDisconnected

\* The notice of the handlers at lines 179-205.
WinNoticeFor(kind) ==
    CASE kind = "Timeout" -> MsgOpponentTimeout
      [] kind = "Quit" -> MsgOpponentQuit
      [] OTHER -> MsgOpponentDisconnected

\* handle_game: except TimeoutWaitingPlayerError / PlayerQuitError /
\* PlayerDisconnectedError (lines 179-205): the remaining player is worked
\* out from p1.getpeername() and told it wins, all inside try/except-pass;
\* then break.
HandleTransport(k) ==
    LET s == sessions[k] IN
    /\ s.pc = "handler"
    /\ s.exc.kind \in {"Timeout", "Quit", "Disconnected"}
    /\ \E g \in GetPeerName(s.p1, net[s.p1]) :
         LET net1 == [net EXCEPT ![s.p1] = g.net]
             remaining == Remaining(s, s.exc.addr, g.addr)
         IN
         IF ~g.ok
         THEN /\ net' = net1
              /\ peer' = peer
              /\ sessions' = [sessions EXCEPT ![k] =
                    Break([s EXCEPT !.trace =
                                 Log(s.trace, Ev("getpeername", s.p1, "raised", FALSE))])]
         ELSE \E r \in SafeSend(remaining, net1[remaining]) :
                /\ net' = [net1 EXCEPT ![remaining] = r.net]
                /\ Buffered(remaining, r.ok)
                /\ sessions' = [sessions EXCEPT ![k] =
                      Break([s EXCEPT !.trace = Log(s.trace,
                                    Ev("send", remaining, WinNoticeFor(s.exc.kind), r.ok))])]
    /\ UNCHANGED <<tracing, deadline, cpc, lock, clients_waiting, appended, closed, inbox>>

\* handle_game: except InvalidMessageError (lines 207-213): current is told,
\* best effort, and the loop continues.
HandleInvalid(k) ==
    LET s == sessions[k] IN
    /\ s.pc = "handler"
    /\ s.exc.kind = "Invalid"
    /\ \E r \in SafeSend(s.current, net[s.current]) :
         /\ net' = [net EXCEPT ![s.current] = r.net]
         /\ Buffered(s.current, r.ok)
         /\ sessions' = [sessions EXCEPT ![k] =
               Continue([s EXCEPT !.trace = Log(s.trace,
                                     Ev("send", s.current, MsgInvalidMessage, r.ok))])]
    /\ UNCHANGED <<tracing, deadline, cpc, lock, clients_waiting, appended, closed, inbox>>

\* handle_game: except Exception (lines 215-226): the server error notice to
\* p1 (line 219), then to p2 (line 223), each best effort and each a call of
\* its own; then break.
HandleOther(k) ==
    LET s == sessions[k] IN
    /\ \/ s.pc = "handler" /\ s.exc.kind = "Other"
       \/ s.pc = "other2"
    /\ IF s.pc = "handler" THEN SendBestEffort(k, s.p1, MsgServerError, "other2")
                            ELSE SendBestEffort(k, s.p2, MsgServerError, "close1")
    /\ UNCHANGED <<tracing, deadline, cpc, lock, clients_waiting, appended, closed, inbox>>

\* handle_game: after the loop, close p1, then p2 (lines 228-232).
Close(k) ==
    LET s == sessions[k] IN
    /\ s.pc \in {"close1", "close2"}
    /\ IF s.pc = "close1" THEN CloseStep(k, s.p1, "close2")
                           ELSE CloseStep(k, s.p2, "done")
    /\ UNCHANGED <<tracing, deadline, peer, cpc, lock, clients_waiting, appended, inbox>>

\* ------------------------------------------------------------- environment

\* The trace of a session that is between its prompt and the end of its
\* receive also notes what its players send meanwhile.
ClientEv(c, m) == [op |-> "client", c |-> c, what |-> "sent", ok |-> TRUE, text |-> m]

\* A client sends a message, or closes its end, without being asked: the
\* data waits in the socket until the server reads from that connection.
ClientSendsEarly(c) ==
    /\ cpc[c] # "none"
    /\ ~closed[c]
    /\ inbox[c] = <<>>
    /\ \E m \in EarlyInputs :
         /\ inbox' = [inbox EXCEPT ![c] = <<m>>]
         /\ sessions' = [k \in 1..Len(sessions) |->
                LET s == sessions[k] IN
                IF c \in {s.p1, s.p2} /\ s.pc \in {"waiting", "recv", "recving"}
                THEN [s EXCEPT !.trace = Log(s.trace, ClientEv(c, m))]
                ELSE s]
    /\ UNCHANGED <<tracing, deadline, peer, cpc, lock, clients_waiting, appended, net, closed>>

\* A client stops reading from its socket: what it is sent from now on
\* stays in the socket's buffers.
ClientStopsReading(c) ==
    /\ cpc[c] # "none"
    /\ ~closed[c]
    /\ peer[c].reading
    /\ peer' = [peer EXCEPT ![c].reading = FALSE]
    /\ UNCHANGED <<tracing, deadline, cpc, lock, clients_waiting, sessions, appended, net,
                   closed, inbox>>

\* A client that had stopped reads again, and empties the buffers.
ClientResumesReading(c) ==
    /\ ~closed[c]
    /\ ~peer[c].reading
    /\ peer' = [peer EXCEPT ![c] = [reading |-> TRUE, unread |-> 0]]
    /\ UNCHANGED <<tracing, deadline, cpc, lock, clients_waiting, sessions, appended, net,
                   closed, inbox>>

\* ------------------------------------------------------------ specifications

NextOf(inputs) ==
    \/ \E c \in Conns : Accept(c)
    \/ \E c \in Conns : Welcome(c)
    \/ \E c \in Conns : WelcomeFailed(c)
    \/ \E c \in Conns : Acquire(c)
    \/ \E c \in Conns : AppendWaiting(c)
    \/ \E c \in Conns : Pair(c)
    \/ \E c \in Conns : Release(c)
    \/ \E c \in Conns : NoPair(c)
    \/ \E k \in 1..Len(sessions) : Greet(k)
    \/ \E k \in 1..Len(sessions) : GreetFailedClose(k)
    \/ \E k \in 1..Len(sessions) : BoardBroadcast(k)
    \/ \E k \in 1..Len(sessions) : Prompt(k)
    \/ \E k \in 1..Len(sessions) : Waiting(k)
    \/ \E k \in 1..Len(sessions) : RecvBegin(k)
    \/ \E k \in 1..Len(sessions) : ReceiveReply(k, inputs)
    \/ \E k \in 1..Len(sessions) : MakeMove(k)
    \/ \E k \in 1..Len(sessions) : RejectionNotice(k)
    \/ \E k \in 1..Len(sessions) : AfterMove(k)
    \/ \E k \in 1..Len(sessions) : HandleTransport(k)
    \/ \E k \in 1..Len(sessions) : HandleInvalid(k)
    \/ \E k \in 1..Len(sessions) : HandleOther(k)
    \/ \E k \in 1..Len(sessions) : Close(k)

\* What a client may send in each specification.
SpecInputs == CoreInputs(MaxCell)
MatchInputs == CoreInputs(MaxCellMatch)
EarlySpecInputs == VariedInputs(MaxCellEarly)

\* Two connections, one full game.
Next == NextOf(SpecInputs)
Spec == Init /\ [][Next]_vars

\* Several connections and sessions, a one-cell game.
NextMatch == NextOf(MatchInputs)
SpecMatch == InitOf(NConnsMatch, FALSE) /\ [][NextMatch]_vars

\* Two connections, a three-cell game, clients that spell their messages in
\* more ways and may also send before they are asked.
NextEarly ==
    \/ NextOf(EarlySpecInputs)
    \/ \E c \in Conns : ClientSendsEarly(c)
SpecEarly == Init /\ [][NextEarly]_vars

\* Two connections, a one-cell game, clients that may stop reading what
\* they are sent, and a session worker that is not starved: whatever call
\* handle_game is at, the call returns or raises and the worker goes on,
\* unless the call is a send that waits for room in the buffer of a peer
\* that does not read. That the peer breaks the connection is the peer's
\* choice and never required.
NextLive ==
    \/ NextOf(MatchInputs)
    \/ \E c \in Conns : ClientStopsReading(c)
    \/ \E c \in Conns : ClientResumesReading(c)

\* A step of the k-th handle_game worker.
SessionStep(k) ==
    /\ k <= Len(sessions)
    /\ \/ Greet(k) \/ GreetFailedClose(k)
       \/ BoardBroadcast(k) \/ Prompt(k) \/ Waiting(k)
       \/ RecvBegin(k) \/ ReceiveReply(k, MatchInputs)
       \/ MakeMove(k) \/ RejectionNotice(k) \/ AfterMove(k)
       \/ HandleTransport(k) \/ HandleInvalid(k) \/ HandleOther(k)
       \/ Close(k)

\* A step of the worker during which no transport changes but by the
\* worker's own close.
UndisturbedStep(k) ==
    /\ SessionStep(k)
    /\ \A c \in Conns : net'[c] # net[c] => closed'[c]

SpecLive ==
    Init /\ [][NextLive]_vars /\ \A k \in 1..(NConns \div 2) : WF_vars(UndisturbedStep(k))

\* ------------------------------------------------------------- properties

SessionIds == 1..Len(sessions)
Players(s) == {s.p1, s.p2}
InQueue(c) == \E i \in 1..Len(clients_waiting) : clients_waiting[i] = c
SessionsOf(c) == {k \in SessionIds : c \in Players(sessions[k])}

\* C1: for any interleaving of the client_thread workers, the k-th session
\* started is handle_game(p1, p2) with p1 and p2 the (2k-1)-th and 2k-th
\* connections appended to clients_waiting; the connections appended and not
\* yet paired are exactly those waiting, in order; and once the lock is free
\* one session has been started for every two connections appended.
C1_FifoPairing ==
    /\ \A k \in SessionIds :
         /\ 2 * k <= Len(appended)
         /\ sessions[k].p1 = appended[2 * k - 1]
         /\ sessions[k].p2 = appended[2 * k]
    /\ clients_waiting = SubSeq(appended, 2 * Len(sessions) + 1, Len(appended))
    /\ lock = 0 => Len(sessions) = Len(appended) \div 2

\* Two sessions were started, and the connections were not appended in the
\* order they were accepted: connection 1 is a player of the second session.
C1_Witness ==
    /\ Len(sessions) = 2
    /\ 1 \in Players(sessions[2])
    /\ sessions[2].p1 > sessions[2].p2

\* C2: every connection is owned by at most one of the matchmaking queue and
\* one session: it is never in clients_waiting twice, never in clients_waiting
\* and a player of a session, never a player of two sessions (nor both
\* players of one); a connection that was closed is not waiting; and a
\* connection that is a player of a session stays one and is never appended
\* to clients_waiting again.
C2_Owned ==
    \A c \in Conns :
      /\ Cardinality({i \in 1..Len(clients_waiting) : clients_waiting[i] = c})
           + Cardinality(SessionsOf(c)) <= 1
      /\ \A k \in SessionIds : sessions[k].p1 # sessions[k].p2
      /\ closed[c] => ~InQueue(c)

C2_OnceInSession ==
    \A c \in Conns :
      SessionsOf(c) # {} => /\ SessionsOf(c)' = SessionsOf(c)
                           /\ ~InQueue(c)'
                           /\ (Len(appended') > Len(appended)
                                 => appended'[Len(appended')] # c)

C2_ExclusiveOwnership == []C2_Owned /\ [][C2_OnceInSession]_vars

\* All three kinds of owner at once: one connection was closed unqueued after
\* its Welcome failed, two are the players of a session that has ended and
\* closed them, and one is waiting in the queue.
C2_Witness ==
    /\ Len(sessions) = 1
    /\ sessions[1].pc = "done"
    /\ Len(clients_waiting) = 1
    /\ \E c \in Conns : closed[c] /\ SessionsOf(c) = {} /\ cpc[c] = "returned"

\* The worker has left the loop for good (or never entered it).
Leaving(s) ==
    \/ s.pc \in {"other2", "close1", "close2", "done", "gclose1", "gclose2"}
    \/ s.pc = "handler" /\ s.exc.kind # "Invalid"

IsSend(e, c, what) == e.op = "send" /\ e.c = c /\ e.what = what

\* The reply read at trace[i] is QUIT in some letter case.
IsQuitRecv(e) == e.op = "recv" /\ e.what = "Text" /\ Upper(e.text) = QUIT_TEXT

\* Nothing in the trace is a transport failure: every send was delivered, no
\* receive ended in a disconnect, no address lookup raised.
NoTransportFault(s) ==
    \A i \in 1..Len(s.trace) :
      LET e == s.trace[i] IN
      /\ e.op = "send" => e.ok /\ e.what # MsgServerError
      /\ e.op = "recv" => e.what # "Disconnected"
      /\ e.op # "getpeername"

\* What the server did, without the notes of what the clients sent meanwhile.
IsServerEv(e) == e.op # "client"
ServerTrace(s) == SelectSeq(s.trace, IsServerEv)

\* Player c sent QUIT (in some case, with whitespace around it) while the
\* session was waiting for the reply of the turn owner.
QuitSentInLoop(s, c) ==
    \E i \in 1..Len(s.trace) :
      /\ s.trace[i].op = "client" /\ s.trace[i].c = c
      /\ s.trace[i].text # EOF /\ Upper(Strip(s.trace[i].text)) = QUIT_TEXT
      /\ \E j \in (i + 1)..Len(s.trace) : s.trace[j].op = "recv"

\* C3 as stated: whenever a player of a running session has sent QUIT,
\* whether or not it is that player's turn, the session ends with the opponent
\* sent OPPONENT_QUIT - you win (here for sessions without any transport
\* failure).
C3_QuitAlwaysNotified ==
    \A k \in SessionIds :
      LET s == sessions[k] IN
      \A c \in Players(s) :
        (s.pc = "done" /\ NoTransportFault(s) /\ QuitSentInLoop(s, c))
        => \E i \in 1..Len(s.trace) : s.trace[i] = Ev("send", OtherOf(s, c), MsgOpponentQuit, TRUE)

\* C3 amended: whenever the session reads from the turn owner a reply that,
\* stripped and upper-cased, is QUIT, it leaves the loop: no move is applied
\* and nothing more is sent except OPPONENT_QUIT - you win to the other
\* player (never to the one who quit), or, if an address lookup raised, no
\* notice or the server error notice; then both connections are closed.
C3_TurnOwnerQuit ==
    \A k \in SessionIds :
      LET s == sessions[k]
          t == ServerTrace(s)
      IN
      \A i \in 1..Len(t) :
        IsQuitRecv(t[i]) =>
          LET c == t[i].c
              o == OtherOf(s, c)
          IN
          /\ t[1] = Ev("send", c, MsgPrompt, TRUE)
          /\ Leaving(s)
          /\ s.pc = "handler" => s.exc.kind \in {"Quit", "Other"} /\ i = Len(t)
          /\ s.pc # "handler" => i < Len(t)
          /\ i < Len(t) =>
               \/ /\ IsSend(t[i + 1], o, MsgOpponentQuit)
                  /\ \A j \in (i + 2)..Len(t) : t[j].op = "close"
               \/ /\ t[i + 1] = Ev("getpeername", s.p1, "raised", FALSE)
                  /\ \A j \in (i + 2)..Len(t) : t[j].op = "close"
               \/ /\ IsSend(t[i + 1], s.p1, MsgServerError)
                  /\ IF s.pc = "other2" THEN Len(t) = i + 1
                     ELSE /\ Len(t) >= i + 2
                          /\ IsSend(t[i + 2], s.p2, MsgServerError)
                          /\ \A j \in (i + 3)..Len(t) : t[j].op = "close"
          /\ s.pc = "done" => closed[s.p1] /\ closed[s.p2]

\* The second player, whose turn it is after a move of the first, replies
\* " quit" in lower case; the first player is delivered OPPONENT_QUIT and the
\* session has ended.
C3_Witness ==
    \E k \in SessionIds :
      LET s == sessions[k] IN
      /\ s.pc = "done"
      /\ closed[s.p1] /\ closed[s.p2]
      /\ Len(s.trace) = 6
      /\ s.trace[3] = RecvEv(s.p2, "Text", <<"q", "u", "i", "t">>)
      /\ s.trace[4] = Ev("send", s.p1, MsgOpponentQuit, TRUE)

IsBoardSend(e) == e.op = "send" /\ e.what = MsgBoard
IsFailedSend(e) == e.op = "send" /\ ~e.ok
IsIllegalMove(e) == e.op = "move" /\ e.what \in IllegalMoveErrors

\* What follows a recoverable rejection answered at trace[n]: the loop is
\* re-entered at its top, the board goes to p1 and then to p2, and the prompt
\* is next; nothing else happens unless one of these sends fails.
ReloopsAfter(s, t, n) ==
    LET rest == SubSeq(t, n + 1, Len(t)) IN
    /\ Len(rest) = 0 => s.pc = "board1"
    /\ Len(rest) >= 1 => IsSend(rest[1], s.p1, MsgBoard)
    /\ Len(rest) = 1 /\ rest[1].ok => s.pc = "board2"
    /\ Len(rest) >= 2 /\ rest[1].ok => IsSend(rest[2], s.p2, MsgBoard)
    /\ Len(rest) >= 2 /\ rest[1].ok /\ rest[2].ok => Len(rest) = 2 /\ s.pc = "prompt"
    /\ Leaving(s) => \E j \in 1..Len(rest) : j <= 2 /\ IsFailedSend(rest[j])

\* C4 as stated: once the ERROR notice of a rejected move has been sent, no
\* board is sent to either player before the next prompt.
C4_NoBoardAfterError ==
    \A k \in SessionIds :
      LET t == sessions[k].trace IN
      \A i \in 1..Len(t) :
        (t[i].op = "send" /\ t[i].what = MsgError)
        => \A j \in (i + 1)..Len(t) : ~IsBoardSend(t[j])

\* C4 amended: when the engine rejects the move of the prompted player as
\* illegal, the turn stays with that player, the ERROR notice to that player
\* is the next thing sent, the broadcast that follows a legal move is
\* skipped, and the loop continues from its top: the board goes to p1 and to
\* p2 once more and then the same player is prompted.
C4_IllegalMoveReloops ==
    \A k \in SessionIds :
      LET s == sessions[k]
          t == s.trace
      IN
      \A i \in 1..Len(t) :
        IsIllegalMove(t[i]) =>
          LET c == t[i].c IN
          /\ t[1] = Ev("send", c, MsgPrompt, TRUE)
          /\ ~Leaving(s) => s.game.turn = c /\ s.game.winner = NoWinner
          /\ i = Len(t) <=> s.pc = "errnotice"
          /\ i < Len(t) => IsSend(t[i + 1], c, MsgError)
          /\ i < Len(t) /\ t[i + 1].ok => ReloopsAfter(s, t, i + 1)
          /\ i < Len(t) /\ ~t[i + 1].ok => Leaving(s)

\* The second player picked the cell the first had taken: it was sent the
\* ERROR notice, both players the board again, and it is about to be
\* prompted again.
C4_Witness ==
    \E k \in SessionIds :
      LET s == sessions[k] IN
      /\ s.pc = "prompt"
      /\ s.game.turn = s.p2
      /\ Len(s.trace) = 7
      /\ s.trace[4] = Ev("move", s.p2, "CellOccupiedError", FALSE)
      /\ s.trace[5] = Ev("send", s.p2, MsgError, TRUE)
      /\ s.trace[6] = Ev("send", s.p1, MsgBoard, TRUE)
      /\ s.trace[7] = Ev("send", s.p2, MsgBoard, TRUE)

\* The stripped reply is neither QUIT, nor all digits, nor MOVE followed by
\* exactly one all-digit token.
IsMalformedInput(text) ==
    /\ Upper(text) # QUIT_TEXT
    /\ ~IsDigit(text)
    /\ ~( /\ StartsWith(Upper(text), MOVE_PREFIX)
          /\ Len(Split(text)) = 2
          /\ IsDigit(Split(text)[2]) )

IsMalformedRecv(e) == e.op = "recv" /\ e.what = "Text" /\ IsMalformedInput(e.text)

\* The inline notice a malformed reply is answered with: INVALID_MESSAGE for
\* a reply that starts with MOVE and a blank, Invalid move format otherwise.
InlineNoticeFor(text) ==
    IF StartsWith(Upper(text), MOVE_PREFIX) THEN MsgInvalidMessage ELSE MsgFormat

\* C5: a malformed reply of the current player never reaches the engine; the
\* next thing sent is the inline notice to that player (INVALID_MESSAGE or
\* Invalid move format), the turn stays with that player, and the loop
\* continues from its top to prompt the same player again. The session leaves
\* the loop only if a send fails or the player's address cannot be read.
C5_MalformedInline ==
    \A k \in SessionIds :
      LET s == sessions[k]
          t == ServerTrace(s)
      IN
      \A i \in 1..Len(t) :
        IsMalformedRecv(t[i]) =>
          LET c == t[i].c
              notice == InlineNoticeFor(t[i].text)
          IN
          /\ t[1] = Ev("send", c, MsgPrompt, TRUE)
          /\ \A j \in 1..Len(t) : t[j].op # "move"
          /\ ~Leaving(s) => s.game.turn = c
          /\ i = Len(t) =>
               \/ s.pc = "format" /\ notice = MsgFormat
               \/ s.pc = "handler" /\ notice = MsgInvalidMessage
                    /\ s.exc.kind \in {"Invalid", "Other"}
          /\ i < Len(t) =>
               \/ /\ IsSend(t[i + 1], c, notice)
                  /\ t[i + 1].ok \/ notice = MsgInvalidMessage => ReloopsAfter(s, t, i + 1)
                  /\ ~t[i + 1].ok /\ notice = MsgFormat => Leaving(s)
               \/ /\ notice = MsgInvalidMessage
                  /\ IsSend(t[i + 1], s.p1, MsgServerError)
                  /\ Leaving(s)

\* The first player replied "MOVE x": it was sent INVALID_MESSAGE, both
\* players the board again, and it is about to be prompted again.
C5_Witness ==
    \E k \in SessionIds :
      LET s == sessions[k]
          t == ServerTrace(s)
      IN
      /\ s.pc = "prompt"
      /\ s.game.turn = s.p1
      /\ Len(t) = 6
      /\ t[3] = RecvEv(s.p1, "Text", <<"M", "O", "V", "E", " ", "x">>)
      /\ t[4] = Ev("send", s.p1, MsgInvalidMessage, TRUE)
      /\ t[6] = Ev("send", s.p2, MsgBoard, TRUE)

IsTimeoutRecv(e) == e.op = "recv" /\ e.what = "Timeout"
TimedOut(s) == \E i \in 1..Len(s.trace) : IsTimeoutRecv(s.trace[i])

\* The first session has ended with both connections closed.
FirstSessionEnded ==
    /\ Len(sessions) >= 1
    /\ sessions[1].pc = "done"
    /\ closed[sessions[1].p1] /\ closed[sessions[1].p2]

\* C6: if the prompted player sends nothing within MOVE_TIMEOUT_SECONDS, the
\* session eventually terminates with both connections closed.
C6_EventuallyTerminates ==
    (Len(sessions) >= 1 /\ TimedOut(sessions[1])) ~> FirstSessionEnded

OpponentNotices == {MsgOpponentTimeout, MsgOpponentQuit, MsgOpponentDisconnected}
ResultNotices == {MsgWin, MsgLose}
GreetingNotices == {MsgGameStart("X"), MsgGameStart("O")}

\* Where handle_game stands once it has returned, and what it did last.
C7_ClosedOnReturn ==
    \A k \in SessionIds :
      LET s == sessions[k]
          t == s.trace
          n == Len(t)
      IN
      /\ s.pc = "done" =>
           /\ closed[s.p1] /\ closed[s.p2]
           /\ n >= 2
           /\ t[n - 1] = Ev("close", s.p1, "close", TRUE)
           /\ t[n] = Ev("close", s.p2, "close", TRUE)
      /\ s.pc \in {"close2", "gclose2"} =>
           closed[s.p1] /\ n >= 1 /\ t[n] = Ev("close", s.p1, "close", TRUE)
      /\ n >= 1 /\ t[n].op = "send" =>
           /\ t[n].what \in GreetingNotices /\ ~t[n].ok => s.pc = "gclose1"
           /\ t[n].what \in OpponentNotices => s.pc = "close1"
           /\ t[n].what \in ResultNotices =>
                s.pc = IF t[n].c = s.p1 THEN "result2" ELSE "close1"
           /\ t[n].what = MsgGameOver =>
                s.pc = IF t[n].c = s.p1 THEN "over2b" ELSE "close1"
           /\ t[n].what = MsgServerError =>
                s.pc = IF t[n].c = s.p1 THEN "other2" ELSE "close1"
           /\ t[n].what = MsgNotRecognized => s.pc \in {"close1", "handler"}

\* Once the loop is left it is not entered again.
C7_LoopStaysLeft ==
    \A k \in SessionIds : Leaving(sessions[k]) => Leaving(sessions'[k])

\* C7: on every path by which handle_game returns, close has been attempted
\* on p1 and then on p2; a send that fails during teardown, or a close that
\* raises, prevents neither the closing of the other connection nor the end
\* of the loop.
C7_BothClosedOnEveryPath == []C7_ClosedOnReturn /\ [][C7_LoopStaysLeft]_vars

\* A game was won, the loser could not be sent You lose!, and both
\* connections are closed all the same.
C7_Witness ==
    \E k \in SessionIds :
      LET s == sessions[k] IN
      /\ s.pc = "done"
      /\ closed[s.p1] /\ closed[s.p2]
      /\ s.game.winner \in {"X", "O"}
      /\ \E i \in 1..Len(s.trace) : s.trace[i].what = MsgLose /\ IsFailedSend(s.trace[i])

IsLegalMove(e) == e.op = "move" /\ e.what = "ok" /\ e.ok
IsClose(e, c) == e = Ev("close", c, "close", TRUE)

\* The two board sends that follow the legal move at trace[i], the second
\* only once the first succeeded.
BoardsAfterMove(s, t, i) ==
    /\ i = Len(t) <=> s.pc = "after1"
    /\ i + 1 <= Len(t) => IsSend(t[i + 1], s.p1, MsgBoard)
    /\ i + 2 <= Len(t) /\ t[i + 1].ok => IsSend(t[i + 2], s.p2, MsgBoard)
    /\ i + 1 = Len(t) /\ t[i + 1].ok => s.pc = "after2"

BothBoardsDelivered(t, i) == i + 2 <= Len(t) /\ IsBoardSend(t[i + 1]) /\ t[i + 1].ok
                                             /\ IsBoardSend(t[i + 2]) /\ t[i + 2].ok

\* C8: when a legal move completes a winning line, the final board goes to
\* p1 and to p2 first; then the player whose symbol is the engine's winner is
\* sent You win! and the other You lose! (p1's notice, then p2's), and no
\* result is sent before both boards were; then the session closes p1 and
\* p2 and has ended.
C8_WinSequence ==
    \A k \in SessionIds :
      LET s == sessions[k]
          t == s.trace
          w == s.game.winner
          expected(c) == IF SymbolOf(s.game, c) = w THEN MsgWin ELSE MsgLose
      IN
      w \in {"X", "O"} =>
        \E i \in 1..Len(t) :
          /\ IsLegalMove(t[i])
          /\ SymbolOf(s.game, t[i].c) = w
          /\ \A j \in 1..Len(t) : t[j].op = "move" => j = i
          /\ BoardsAfterMove(s, t, i)
          /\ \A j \in 1..Len(t) :
               t[j].op = "send" /\ t[j].what \in ResultNotices =>
                 BothBoardsDelivered(t, i) /\ j \in {i + 3, i + 4}
          /\ BothBoardsDelivered(t, i) =>
               /\ i + 2 = Len(t) <=> s.pc = "result1"
               /\ i + 3 <= Len(t) => IsSend(t[i + 3], s.p1, expected(s.p1))
               /\ i + 3 = Len(t) <=> s.pc = "result2"
               /\ i + 4 <= Len(t) => IsSend(t[i + 4], s.p2, expected(s.p2))
               /\ i + 4 = Len(t) <=> s.pc = "close1"
               /\ i + 5 <= Len(t) => IsClose(t[i + 5], s.p1)
               /\ i + 6 <= Len(t) => IsClose(t[i + 6], s.p2) /\ Len(t) = i + 6
               /\ i + 6 = Len(t) <=> s.pc = "done"
          /\ s.pc = "done" => closed[s.p1] /\ closed[s.p2]

\* O completed a line: both were delivered the final board, then p1 (X) You
\* lose! and p2 (O) You win!, and both connections are closed.
C8_Witness ==
    \E k \in SessionIds :
      LET s == sessions[k]
          t == s.trace
          n == Len(t)
      IN
      /\ s.pc = "done"
      /\ closed[s.p1] /\ closed[s.p2]
      /\ s.game.winner = "O" /\ s.game.O = s.p2
      /\ n >= 7
      /\ IsLegalMove(t[n - 6]) /\ t[n - 6].c = s.p2
      /\ t[n - 5] = Ev("send", s.p1, MsgBoard, TRUE)
      /\ t[n - 4] = Ev("send", s.p2, MsgBoard, TRUE)
      /\ t[n - 3] = Ev("send", s.p1, MsgLose, TRUE)
      /\ t[n - 2] = Ev("send", s.p2, MsgWin, TRUE)

\* C9: when the engine has reported a draw after a legal move and the final
\* board has gone to both players, then by the time the session has ended
\* both players were sent the draw notice, neither was sent a win or loss
\* notice (You win!, You lose!, or an OPPONENT_... - you win notice), and
\* both connections are closed.
C9_DrawNoticeToBoth ==
    \A k \in SessionIds :
      LET s == sessions[k]
          t == s.trace
      IN
      ( /\ s.game.winner = "Draw"
        /\ s.pc = "done"
        /\ \E i \in 1..Len(t) : IsLegalMove(t[i]) /\ BothBoardsDelivered(t, i) ) =>
        /\ \A c \in Players(s) : \E j \in 1..Len(t) : IsSend(t[j], c, MsgDraw)
        /\ \A j \in 1..Len(t) :
             ~(t[j].op = "send" /\ t[j].what \in ResultNotices \cup OpponentNotices)
        /\ closed[s.p1] /\ closed[s.p2]

\* The sends whose failure is raised to the handlers of the loop or of the
\* greeting (the others sit in try/except-pass), and the receives that fail.
RaisingNotices ==
    GreetingNotices \cup {MsgBoard, MsgPrompt, MsgWaiting, MsgFormat, MsgError,
                          MsgNotRecognized, MsgDraw}
IsTransportFailure(e) ==
    \/ IsFailedSend(e) /\ e.what \in RaisingNotices
    \/ e.op = "recv" /\ e.what \in {"Timeout", "Disconnected"}

\* C10 as stated: a session in which a transport failure was raised, the
\* greeting included, has ended with OPPONENT_DISCONNECTED or OPPONENT_TIMEOUT
\* sent to the other player.
C10_AlwaysWinNotice ==
    \A k \in SessionIds :
      LET s == sessions[k]
          t == s.trace
      IN
      \A i \in 1..Len(t) :
        (s.pc = "done" /\ IsTransportFailure(t[i]))
        => \E j \in 1..Len(t) :
             /\ t[j].op = "send" /\ t[j].c = OtherOf(s, t[i].c)
             /\ t[j].what \in {MsgOpponentDisconnected, MsgOpponentTimeout}

\* C10 amended: every transport failure raised in a session ends it. Raised
\* inside the loop, it is followed at once by the send of the win notice,
\* OPPONENT_TIMEOUT for a timeout and OPPONENT_DISCONNECTED otherwise, to the
\* other player, unless the address of p1 cannot be read, and then by the
\* closing of both connections; raised during the greeting, by the closing
\* of both connections and no notice.
C10_TransportFailureEnds ==
    \A k \in SessionIds :
      LET s == sessions[k]
          t == s.trace
      IN
      \A i \in 1..Len(t) :
        IsTransportFailure(t[i]) =>
          LET o == OtherOf(s, t[i].c)
              notice == IF IsTimeoutRecv(t[i]) THEN MsgOpponentTimeout
                        ELSE MsgOpponentDisconnected
          IN
          /\ Leaving(s)
          /\ \A j \in (i + 2)..Len(t) : t[j].op = "close"
          /\ s.pc = "done" => closed[s.p1] /\ closed[s.p2]
          /\ IF t[i].what \in GreetingNotices
             THEN /\ s.pc \in {"gclose1", "gclose2", "done"}
                  /\ i + 1 <= Len(t) => t[i + 1].op = "close"
                  /\ \A j \in 1..Len(t) : t[j].what \in GreetingNotices \/ t[j].op = "close"
             ELSE /\ s.pc \in {"handler", "close1", "close2", "done"}
                  /\ i = Len(t) <=> s.pc = "handler"
                  /\ i + 1 <= Len(t) =>
                       \/ IsSend(t[i + 1], o, notice)
                       \/ t[i + 1] = Ev("getpeername", s.p1, "raised", FALSE)

\* The board could not be sent to p2 at the top of the loop: p1 was
\* delivered OPPONENT_DISCONNECTED - you win and both connections are closed.
C10_Witness ==
    \E k \in SessionIds :
      LET s == sessions[k]
          t == s.trace
          n == Len(t)
      IN
      /\ s.pc = "done"
      /\ closed[s.p1] /\ closed[s.p2]
      /\ n >= 4
      /\ t[n - 3] = Ev("send", s.p2, MsgBoard, FALSE)
      /\ t[n - 2] = Ev("send", s.p1, MsgOpponentDisconnected, TRUE)

IsFailedGreeting(e) == IsFailedSend(e) /\ e.what \in GreetingNotices
GreetingFailed(s) == \E i \in 1..Len(s.trace) : IsFailedGreeting(s.trace[i])

\* A session one of whose greetings failed: nothing but greetings and closes
\* was done, the game is as constructed, and the worker is at the closing of
\* the greeting's handler or has returned.
C11_OnlyGreetAndClose ==
    \A k \in SessionIds :
      LET s == sessions[k]
          t == s.trace
      IN
      \A i \in 1..Len(t) :
        IsFailedGreeting(t[i]) =>
          /\ i <= 2
          /\ i = 2 => t[1] = Ev("send", s.p1, MsgGameStart("X"), TRUE)
          /\ t[i].c = IF i = 1 THEN s.p1 ELSE s.p2
          /\ \A j \in 1..Len(t) : j # i =>
               ~IsFailedGreeting(t[j]) /\ (t[j].op = "close" \/ j < i)
          /\ i = Len(t) <=> s.pc = "gclose1"
          /\ i + 1 = Len(t) <=> s.pc = "gclose2"
          /\ i + 1 <= Len(t) => IsClose(t[i + 1], s.p1)
          /\ i + 2 <= Len(t) => IsClose(t[i + 2], s.p2) /\ Len(t) = i + 2
          /\ i + 2 = Len(t) <=> s.pc = "done"
          /\ s.pc = "done" => closed[s.p1] /\ closed[s.p2]
          /\ s.game = NewGame(s.p1, s.p2)
          /\ s.current = 0 /\ s.move_text = <<>> /\ s.move_arg = <<>>

\* The failed greeting stays in the trace: the trace starts afresh only with
\* a prompt.
C11_NeverPrompted ==
    \A k \in SessionIds : GreetingFailed(sessions[k]) => GreetingFailed(sessions'[k])

\* C11: if the greeting to p1 or to p2 fails, the session goes straight to
\* its end: no board, prompt or waiting notice is sent, nothing is received,
\* make_move is not called, and p1 and p2 are closed.
C11_GreetingFailureTerminates == []C11_OnlyGreetAndClose /\ [][C11_NeverPrompted]_vars

\* p1 was greeted, the greeting to p2 failed, and both connections are
\* closed with nothing else done.
C11_Witness ==
    \E k \in SessionIds :
      LET s == sessions[k] IN
      /\ s.pc = "done"
      /\ closed[s.p1] /\ closed[s.p2]
      /\ s.trace = << Ev("send", s.p1, MsgGameStart("X"), TRUE),
                      Ev("send", s.p2, MsgGameStart("O"), FALSE),
                      Ev("close", s.p1, "close", TRUE),
                      Ev("close", s.p2, "close", TRUE) >>

\* The connections a session is reading from right now.
Receiving == {sessions[k].current : k \in {j \in SessionIds : sessions[j].pc = "recving"}}

\* C12: recv_with_timeout leaves the read deadline of the connection cleared
\* whichever way it ends (text received, timeout, end of stream, any other
\* failure of the read); a connection has a deadline, of MOVE_TIMEOUT_SECONDS,
\* exactly while a session is inside recv_with_timeout on it.
C12_DeadlineCleared ==
    /\ \A c \in Conns :
         /\ deadline[c] \in {0, MOVE_TIMEOUT_SECONDS}
         /\ deadline[c] # 0 <=> c \in Receiving
    /\ \A k \in SessionIds :
         LET t == ServerTrace(sessions[k]) IN
         \A i \in 1..Len(t) :
           t[i].op = "recv" =>
             /\ t[i].what \in {"Text", "Timeout", "Disconnected"}
             /\ deadline[t[i].c] = 0

\* The receive from the prompted player has just timed out, and no
\* connection has a deadline.
C12_Witness ==
    /\ \A c \in Conns : deadline[c] = 0
    /\ \E k \in SessionIds :
         LET s == sessions[k] IN
         /\ s.pc = "handler"
         /\ s.exc.kind = "Timeout"
         /\ IsTimeoutRecv(s.trace[Len(s.trace)])

\* The lock is held by a client_thread worker exactly while that worker is
\* between the entry of the with block and its exit.
C13_HeldInCriticalSection ==
    /\ lock \in Conns \cup {0}
    /\ \A c \in Conns : lock = c <=> cpc[c] \in {"append", "check", "release"}

\* What one step may do with the lock and the network.
C13_NoNetworkUnderLock ==
    /\ \A c \in Conns :
         cpc[c] = "welcome" /\ cpc'[c] # "welcome" => lock # c /\ lock' # c
    /\ \A c \in Conns :
         lock = c /\ cpc'[c] # cpc[c] =>
           /\ net' = net /\ closed' = closed /\ inbox' = inbox /\ deadline' = deadline
           /\ \A k \in SessionIds : sessions'[k] = sessions[k]
    /\ (\E k \in SessionIds : sessions'[k] # sessions[k]) => lock' = lock /\ cpc' = cpc
    /\ lock' # lock =>
         \E c \in Conns :
           \/ lock = 0 /\ lock' = c /\ cpc[c] = "lock" /\ cpc'[c] = "append"
           \/ lock = c /\ lock' = 0 /\ cpc[c] \in {"check", "release"}
                /\ cpc'[c] = "returned"

\* C13: the matchmaking lock is held only from the entry of the with block to
\* its exit (append, check, pop, start of the session thread): the Welcome
\* send is made before the lock is taken, the holder of the lock makes no
\* send, receive or close, and no step of a session takes or releases the
\* lock. A session just started may send and receive before the worker that
\* started it has left the with block; that session worker does not hold
\* the lock.
C13_LockOnlyForQueue == []C13_HeldInCriticalSection /\ [][C13_NoNetworkUnderLock]_vars

\* A client_thread worker has started a session and still holds the lock,
\* about to leave the with block, while that session has greeted and
\* prompted its players and waits in its receive.
C13_Witness ==
    /\ lock # 0
    /\ cpc[lock] = "release"
    /\ Len(sessions) >= 1
    /\ sessions[Len(sessions)].pc = "recving"

\* The trace ends with the board delivered to p1 and then to p2.
EndsWithBothBoards(s) ==
    LET t == s.trace
        n == Len(t)
    IN
    /\ n >= 2
    /\ t[n - 1] = Ev("send", s.p1, MsgBoard, TRUE)
    /\ t[n] = Ev("send", s.p2, MsgBoard, TRUE)

\* Where an iteration stands, by what it has sent so far.
C14_IterationOrder ==
    \A k \in SessionIds :
      LET s == sessions[k]
          t == s.trace
          n == Len(t)
      IN
      /\ s.pc = "board2" => n >= 1 /\ t[n] = Ev("send", s.p1, MsgBoard, TRUE)
      /\ s.pc = "prompt" => EndsWithBothBoards(s)
      /\ s.pc = "waiting" =>
           s.current = s.game.turn /\ t = <<Ev("send", s.current, MsgPrompt, TRUE)>>
      /\ s.pc \in {"recv", "recving"} =>
           /\ s.current = s.game.turn
           /\ t = << Ev("send", s.current, MsgPrompt, TRUE),
                     Ev("send", OtherOf(s, s.current), MsgWaiting, TRUE) >>
      /\ \A i \in 1..n :
           /\ t[i].op = "send" /\ t[i].what = MsgPrompt => i = 1
           /\ t[i].op = "send" /\ t[i].what = MsgWaiting =>
                i = 2 /\ t[1] = Ev("send", OtherOf(s, t[i].c), MsgPrompt, TRUE)
           /\ t[i].op = "recv" =>
                /\ i = 3
                /\ t[1] = Ev("send", t[i].c, MsgPrompt, TRUE)
                /\ t[2] = Ev("send", OtherOf(s, t[i].c), MsgWaiting, TRUE)

\* A prompt is sent only by a worker that has just delivered the board to
\* both players, and it goes to the engine's turn owner.
C14_PromptAfterBoards ==
    \A k \in SessionIds :
      LET s == sessions[k]
          s2 == sessions'[k]
      IN
      (s2.trace # s.trace /\ Len(s2.trace) = 1 /\ s2.trace[1].what = MsgPrompt) =>
        /\ s.pc = "prompt"
        /\ EndsWithBothBoards(s)
        /\ s2.trace[1].c = s.game.turn

\* C14: within each iteration the sends are made in the order board to p1,
\* board to p2, prompt to the turn owner, waiting notice to the other player,
\* and only then the receive from the turn owner; the prompt is sent only
\* after both board sends of the iteration succeeded.
C14_FixedSendOrder == []C14_IterationOrder /\ [][C14_PromptAfterBoards]_vars

\* In the second iteration the session has prompted p2, told p1 to wait,
\* and is receiving from p2.
C14_Witness ==
    \E k \in SessionIds :
      LET s == sessions[k] IN
      /\ s.pc = "recving"
      /\ s.game.turn = s.p2
      /\ s.trace = << Ev("send", s.p2, MsgPrompt, TRUE),
                      Ev("send", s.p1, MsgWaiting, TRUE) >>

\* The event that raised TimeoutWaitingPlayerError, PlayerQuitError or
\* PlayerDisconnectedError into the handlers of the loop.
IsOffence(e) == (IsTransportFailure(e) /\ e.what \notin GreetingNotices) \/ IsQuitRecv(e)

\* The handler that ran for the offence at trace[i] addressed its notice to
\* the other player: the send of an OPPONENT_... notice to that player is
\* the next thing done.
NoticeAddressedToOther(s, t, i) ==
    /\ i + 1 <= Len(t)
    /\ t[i + 1].op = "send"
    /\ t[i + 1].what \in OpponentNotices
    /\ t[i + 1].c = OtherOf(s, t[i].c)

\* C15: in the handlers of TimeoutWaitingPlayerError, PlayerQuitError and
\* PlayerDisconnectedError the OPPONENT_... notice is addressed to the player
\* that is not the offender and is never sent to the offender, whichever of
\* p1 and p2 the offender is, also when the exception carries the sentinel
\* address because the offender's own address could not be read.
C15_NoticeToNonOffender ==
    \A k \in SessionIds :
      LET s == sessions[k]
          t == ServerTrace(s)
          n == Len(t)
      IN
      /\ \A i \in 1..n :
           (t[i].op = "send" /\ t[i].what \in OpponentNotices) =>
             i >= 2 /\ IsOffence(t[i - 1]) /\ t[i].c # t[i - 1].c
      /\ \A i \in 1..n :
           (IsOffence(t[i]) /\ s.pc \in {"close1", "close2", "done"}) =>
             NoticeAddressedToOther(s, t, i)

\* ------------------------------------------------------------------ C16

\* The four kinds of reply, told apart on the trimmed text.
IsQuitText(x) == Upper(x) = <<"Q", "U", "I", "T">>
IsMoveForm(x) == ~IsQuitText(x) /\ StartsWith(Upper(x), <<"M", "O", "V", "E", " ">>)
IsWellFormedMove(x) == IsMoveForm(x) /\ Len(Split(x)) = 2 /\ IsDigit(Split(x)[2])
IsBareDigits(x) == ~IsQuitText(x) /\ ~IsMoveForm(x) /\ IsDigit(x)

\* The session has just received text from a player: nothing was done since.
JustReceived(s) ==
    LET t == ServerTrace(s) IN
    /\ Len(t) >= 1
    /\ t[Len(t)].op = "recv"
    /\ t[Len(t)].what = "Text"

\* The exception kind raised where the offender's address is read with a
\* bare getpeername(): the one meant, or the OSError of that call when the
\* address of c cannot be read.
RaisedAs(s, c, kind) ==
    /\ s.pc = "handler"
    /\ \/ s.exc.kind = kind /\ s.exc.addr = Addr(c)
       \/ s.exc.kind = "Other" /\ net[c] = "gone"

\* C16: for every received, trimmed message the parse step does exactly one
\* of: QUIT in any case raises PlayerQuit; a text that starts with MOVE and a
\* blank (any case) gives its second token as the move argument if it has
\* exactly two tokens and the second is all digits, and raises
\* InvalidMessage otherwise; a bare all-digit text is the move argument
\* itself; anything else, a bare MOVE included, is answered with the inline
\* Invalid move format notice. Only the two move cases reach the engine.
C16_ParseStep ==
    \A k \in SessionIds :
      LET s == sessions[k]
          t == ServerTrace(s)
          n == Len(t)
      IN
      /\ JustReceived(s) =>
           LET x == t[n].text
               c == t[n].c
           IN
           CASE IsQuitText(x) -> RaisedAs(s, c, "Quit")
             [] IsWellFormedMove(x) -> s.pc = "move" /\ s.move_arg = Split(x)[2]
             [] IsMoveForm(x) /\ ~IsWellFormedMove(x) -> RaisedAs(s, c, "Invalid")
             [] IsBareDigits(x) -> s.pc = "move" /\ s.move_arg = x
             [] OTHER -> s.pc = "format"
      /\ s.pc = "format" =>
           /\ JustReceived(s)
           /\ ~IsQuitText(t[n].text) /\ ~IsMoveForm(t[n].text) /\ ~IsDigit(t[n].text)
      /\ \A j \in 1..n :
           t[j].op = "move" =>
             /\ j >= 2
             /\ t[j - 1].op = "recv" /\ t[j - 1].what = "Text"
             /\ t[j - 1].c = t[j].c
             /\ IsWellFormedMove(t[j - 1].text) \/ IsBareDigits(t[j - 1].text)

\* A player replied "move  0" with two blanks and a line end: the move
\* argument handed to the engine is "0"; with a bare MOVE the session is at
\* the inline notice.
C16_Witness ==
    \E k \in SessionIds :
      LET s == sessions[k]
          t == ServerTrace(s)
      IN
      /\ JustReceived(s)
      /\ t[Len(t)].text = <<"m", "o", "v", "e", " ", " ", "0">>
      /\ s.pc = "move"
      /\ s.move_arg = <<"0">>

\* ------------------------------------------------------------------ C17

\* C17: whenever the matchmaking lock is not held, at most one connection is
\* in clients_waiting; so after n connections were appended, exactly
\* floor(n/2) sessions have been started and n mod 2 connections wait. While
\* a worker holds the lock the queue never holds more than two.
C17_AtMostOneWaiting ==
    /\ Len(clients_waiting) <= 2
    /\ lock = 0 =>
         /\ Len(clients_waiting) <= 1
         /\ Len(sessions) = Len(appended) \div 2
         /\ Len(clients_waiting) = Len(appended) % 2

\* Three connections were appended and the lock is free: one session was
\* started and the third connection waits alone.
C17_Witness ==
    /\ lock = 0
    /\ Len(appended) = 3
    /\ Len(sessions) = 1
    /\ Len(clients_waiting) = 1

\* ------------------------------------------------------------------ C18

\* The session is waiting in recv on connection c.
ReadingFrom(s, c) == s.pc = "recving" /\ ReadFrom(s) = c

\* Every read of the iteration, whatever it returned or raised, was a read
\* of the player that was prompted, which is the engine's turn owner: the
\* turn has not moved when the read is the latest thing done.
C18_ReadsOnlyTurnOwner ==
    /\ \A k \in SessionIds :
         LET s == sessions[k]
             t == ServerTrace(s)
             n == Len(t)
         IN
         /\ s.pc \in {"recv", "recving"} => s.current = s.game.turn
         /\ \A i \in 1..n :
              t[i].op = "recv" =>
                /\ t[1].op = "send" /\ t[1].what = MsgPrompt /\ t[1].c = t[i].c
                /\ \A j \in 1..n : t[j].op = "recv" => j = i
                /\ i = n => t[i].c = s.game.turn
    /\ \A c \in Conns :
         deadline[c] # 0 =>
           \E k \in SessionIds : ReadingFrom(sessions[k], c) /\ sessions[k].game.turn = c

\* What a player has sent, or its end of stream, is taken from its
\* connection only by a session waiting in recv on it as the turn owner;
\* until then it stays pending.
C18_IdleNotObserved ==
    \A c \in Conns :
      (inbox[c] # <<>> /\ inbox'[c] # inbox[c]) =>
        \E k \in SessionIds :
          /\ ReadingFrom(sessions[k], c)
          /\ sessions[k].game.turn = c
          /\ sessions'[k].pc \in {"handler", "move", "format"}

\* C18: a session only ever receives from the engine's turn owner; what the
\* idle player sends (QUIT included) or its orderly close is not observed
\* until that player is the turn owner (or a send to it fails).
C18_ReceivesFromTurnOwnerOnly ==
    []C18_ReadsOnlyTurnOwner /\ [][C18_IdleNotObserved]_vars

\* The idle player sent QUIT while the turn owner was being waited for; the
\* turn owner's move was read and accepted, both boards went out, and the
\* QUIT is still pending, unread, at the top of the next iteration.
C18_Witness ==
    \E k \in SessionIds :
      LET s == sessions[k]
          t == s.trace
      IN
      /\ s.pc = "board1"
      /\ \E i, j, m \in 1..Len(t) :
           /\ i < j /\ j < m
           /\ t[i] = ClientEv(s.p2, <<"q", "u", "i", "t", "\n">>)
           /\ t[j].op = "recv" /\ t[j].c = s.p1 /\ t[j].what = "Text"
           /\ t[m].op = "move" /\ t[m].ok
      /\ s.game.turn = s.p2
      /\ inbox[s.p2] = << <<"q", "u", "i", "t", "\n">> >>

\* ------------------------------------------------------------------ C19

\* The outcomes of make_move that a call for the wrong player or after the
\* end would have.
MisplacedCallOutcomes ==
    {"NotYourTurnError", "GameOverError", "PlayerNotRecognizedError"}

\* C19: the session calls the engine's move operation only for the
\* connection that is the engine's turn owner at that moment, at most once
\* per loop iteration, and never once the engine has a winner or a draw: the
\* loop is left in the iteration in which the winner value is set. So the
\* not-your-turn and game-over outcomes are never produced, and the branches
\* that answer them are never entered.
C19_MoveOnlyForTurnOwner ==
    \A k \in SessionIds :
      LET s == sessions[k]
          t == ServerTrace(s)
          n == Len(t)
      IN
      /\ s.pc = "move" =>
           /\ s.current = s.game.turn
           /\ s.current \in {s.game.X, s.game.O}
           /\ s.game.winner = NoWinner
           /\ \A j \in 1..n : t[j].op # "move"
      /\ \A j \in 1..n :
           t[j].op = "move" =>
             /\ t[j].what \notin MisplacedCallOutcomes
             /\ t[1].op = "send" /\ t[1].what = MsgPrompt /\ t[1].c = t[j].c
             /\ \A i \in 1..n : t[i].op = "move" => i = j
      /\ s.pc \notin {"pnrnotice", "over1b", "over1n", "over2b", "over2n"}
      /\ s.game.winner # NoWinner =>
           \/ s.pc \in {"after1", "after2", "draw1", "draw2", "result1", "result2"}
           \/ Leaving(s)

\* The turn owner's move was accepted and with it the engine reported a
\* winner: the board of that move is about to go out and no further move
\* will be asked for.
C19_Witness ==
    \E k \in SessionIds :
      LET s == sessions[k]
          t == ServerTrace(s)
          n == Len(t)
      IN
      /\ s.pc = "after1"
      /\ s.game.winner \in {"X", "O"}
      /\ n >= 1
      /\ t[n].op = "move" /\ t[n].ok
      /\ t[n].c = s.game.turn

\* ------------------------------------------------------------------ C20

\* The terminal outcome notices of the protocol.
TerminalNotices ==
    {MsgWin, MsgLose, MsgDraw, MsgGameOver, MsgServerError} \cup OpponentNotices

\* The positions of the trace at which a terminal notice was delivered to c.
TerminalNoticesTo(t, c) ==
    {i \in 1..Len(t) : t[i].op = "send" /\ t[i].c = c /\ t[i].ok
                         /\ t[i].what \in TerminalNotices}

\* C20: each player of a session is sent at most one terminal outcome
\* notice (You win!, You lose!, the draw notice, GAME OVER, an OPPONENT_...
\* notice, Server error) over the whole session, whatever sends fail: once
\* one was sent the session never prompts again; and nothing is sent to or
\* received from a connection after the session has closed it.
C20_OneTerminalNotice ==
    \A k \in SessionIds :
      LET s == sessions[k]
          t == ServerTrace(s)
          n == Len(t)
      IN
      /\ \A c \in Players(s) : Cardinality(TerminalNoticesTo(t, c)) <= 1
      /\ (\E c \in Players(s) : TerminalNoticesTo(t, c) # {}) =>
           s.pc \notin {"board1", "board2", "prompt", "waiting", "recv", "recving",
                        "move", "format", "errnotice"}
      /\ \A i, j \in 1..n :
           (i < j /\ t[i].op = "close") =>
             ~(t[j].op \in {"send", "recv", "getpeername"} /\ t[j].c = t[i].c)
      /\ \A c \in Players(s) :
           closed[c] => s.pc \in {"close2", "done", "gclose2"} /\ deadline[c] = 0

====
